---- MODULE Spec2Model ----
(***************************************************************************)
(* TeletaskClient (DoIP client): frame codec, stream demultiplexer,        *)
(* GET/RESPONSE correlator and subscription registry, modelled from        *)
(* src/src/index.ts and the connection manager it uses.                    *)
(***************************************************************************)
EXTENDS Integers, Sequences, FiniteSets, TLC

VARIABLES
    connected,            \* TeletaskConnection.state.connected
    socket,               \* TeletaskConnection.socket: "null", "open" or "closed"
    subscribers,          \* Map<FunctionType, Set<callback>> (insertion ordered)
    functionTypeLoggers,  \* Map<FunctionType, boolean>
    responseHandlers,     \* Map<messageId, handler closure>, closure named by its query
    timers,               \* queries whose setTimeout handle is still armed
    queries,              \* one record per waitForGet promise, in call order
    pendingRest,          \* transport: bytes of a split frame not yet delivered
    unitLogging,          \* central unit: function types it was last told to log
    responseTimeoutOption,\* options.connection.responseTimeout given to the constructor
    conn,                 \* TeletaskConnection: sockets, timers, reconnect state
    lastOp                \* history: the last operation and what it produced

vars == <<connected, socket, subscribers, functionTypeLoggers, responseHandlers,
          timers, queries, pendingRest, unitLogging, responseTimeoutOption, conn, lastOp>>

-----------------------------------------------------------------------------
(* Bounds of the model *)

\* queries issued in one behaviour of the correlator specification
MaxQueries == 3
\* queries issued in one behaviour of the fair specification
MaxFairQueries == 2
\* queries issued in one behaviour of the demultiplexer specification
MaxDemuxQueries == 1
\* frames, acknowledge bytes and stray bytes in one delivery
MaxPieces == 3
\* queries issued in one behaviour of the public interface specification
MaxApiQueries == 1
\* parameters of a command drawn byte by byte
MaxParameters == 3
\* the longest parameter sequence of a frame
MaxFrameParameters == 250

\* Sockets one behaviour of the connection creates, and the reconnect
\* attempts the connection is configured to allow.
MaxSockets == 5

\* Length of the buffers of arbitrary bytes the scan is run on.
MaxScanLength == 4
MaxReconnectAttempts == 2

-----------------------------------------------------------------------------
(* Protocol constants *)

STX == 2
ACK == 10
LOG == 3
GET == 6
SET == 7
RESPONSE == 16
KEEP_ALIVE == 11
RELAY == 1
DIMMER == 2
MOTOR == 6
LogStateON == 255
LogStateOFF == 0
MinCentralUnit == 1
MaxCentralUnit == 10
MaxComponentNumber == 65535
MaxDimmerLevel == 100
\* "private readonly responseTimeout = 4000", in milliseconds
responseTimeout == 4000

\* What JavaScript yields for a Buffer index outside the buffer (undefined).
Undefined == -1

FunctionType == {1, 2, 6, 8, 9, 10, 15, 20, 31, 3, 14, 53, 54, 60, 52}

-----------------------------------------------------------------------------
(* Inputs the model draws from *)

\* (centralUnit, number) arguments of queryRelay: central unit 0 is out of range
RelayInputs == {<<0, 5>>, <<1, 5>>}
\* (centralUnit, number) arguments of queryDimmer
DimmerInputs == {<<2, 522>>}
StateBytes == {0, 255}
\* (centralUnit, number) arguments of the set* and query* calls of the
\* public interface specification: in range, central unit below and
\* above its range, number above its range
ComponentInputs == {<<1, 5>>, <<0, 5>>, <<11, 5>>, <<1, 65536>>}
\* level arguments of setDimmer: the ends of the range and one above
LevelInputs == {0, 100, 101}
\* command bytes given to buildCommand: the protocol's commands and the
\* ends of the byte range
CommandBytes == {LOG, GET, SET, RESPONSE, KEEP_ALIVE, 0, 255}
ParameterBytes == {0, 1, 255}
\* parameter sequences given to buildCommand: every short sequence over
\* ParameterBytes, and sequences of the greatest lengths
ShortParameters == UNION {[1..n -> ParameterBytes] : n \in 0..MaxParameters}
LongParameters == {[i \in 1..MaxFrameParameters |-> 255],
                   [i \in 1..MaxFrameParameters |-> i],
                   [i \in 1..(MaxFrameParameters - 1) |-> 1]}
Callbacks == {"cb1", "cb2"}

\* Payloads handed to the decoders. A RESPONSE payload is
\* centralUnit functionType numberMSB numberLSB error, then the bytes of
\* the function type.
Bytes == 0..255

Prefixes(payload) == {SubSeq(payload, 1, n) : n \in 0..(Len(payload) - 1)}

RelayPayloads == {<<1, 1, 0, 5, 0, b>> : b \in Bytes}

\* every level without a previous level; levels around the limit with
\* every previous level
DimmerPayloads ==
    {<<2, 2, 2, 10, 0, l>> : l \in Bytes}
        \cup {<<2, 2, 2, 10, 0, l, p>> : l \in {0, 1, 100, 101}, p \in Bytes}

\* every protection byte with positions in range; positions around the
\* limit; every direction byte of interest
MotorPayloads ==
    {<<1, 6, 0, 5, 0, 1, 255, protection, 50, 40, 1, 44, 0, 0>> : protection \in Bytes}
        \cup {<<1, 6, 0, 5, 0, d, 0, 4, position, current, 0, 0, 3, 7>> :
                  d \in {1, 2, 3, 9}, position \in {0, 100, 101}, current \in {0, 100, 101}}

\* sensor payloads of twenty bytes: the byte at offset 1 selects the
\* sensor family
SensorPayloads ==
    {<<11, selector, 12, 13, 14, 15, 16, 17, 18, 26, 149, 152, 255, 0, 1, 2,
       0, 0, 3, 232>> : selector \in {1, 2, 3, 4, 5, 20}}

\* payloads cut short of the layout their decoder reads
ShortRelayPayloads == Prefixes(<<1, 1, 0, 5, 0, 255>>)
ShortDimmerPayloads == Prefixes(<<2, 2, 2, 10, 0, 40>>)
ShortMotorPayloads == Prefixes(<<1, 6, 0, 5, 0, 1, 255, 1, 50, 40, 1, 44, 0, 0>>)
ShortSensorPayloads == UNION {Prefixes(payload) : payload \in SensorPayloads}

\* every two-byte big-endian raw temperature
TemperaturePayloads == {<<hi, lo>> : hi \in Bytes, lo \in Bytes}

-----------------------------------------------------------------------------
(* Maps *)

EmptyMap == [x \in {} |-> 0]

MapSet(m, k, v) == [x \in (DOMAIN m) \cup {k} |-> IF x = k THEN v ELSE m[x]]

MapDelete(m, k) == [x \in (DOMAIN m) \ {k} |-> m[x]]

MapHas(m, k) == k \in DOMAIN m

-----------------------------------------------------------------------------
(* Buffers: sequences of bytes, indexed from 0 as in the source *)

At(buf, i) == IF i >= 0 /\ i < Len(buf) THEN buf[i + 1] ELSE Undefined

\* buf.slice(from, to) for 0 <= from, 0 <= to
Slice(buf, from, to) ==
    LET e == IF to > Len(buf) THEN Len(buf) ELSE to
    IN  IF from >= e THEN <<>> ELSE SubSeq(buf, from + 1, e)

\* data.slice(3, -1)
PayloadOf(message) == Slice(message, 3, IF Len(message) >= 1 THEN Len(message) - 1 ELSE 0)

\* ToInt32 of a byte read: undefined becomes 0 under << and |
Int32(x) == IF x = Undefined THEN 0 ELSE x

\* (hi << 8) | lo
Number16(hi, lo) == Int32(hi) * 256 + Int32(lo)

\* buf[from] + ... + buf[to], added up by halves.
RECURSIVE SumRange(_, _, _)
SumRange(buf, from, to) ==
    IF from > to THEN 0
    ELSE IF from = to THEN buf[from]
    ELSE LET middle == (from + to) \div 2
         IN  SumRange(buf, from, middle) + SumRange(buf, middle + 1, to)

\* Variant of the checksum loop that starts behind the command byte.
SumBytesBehindHeader(buf, n) == SumRange(buf, 4, n)

\* "for (let i = 0; i < length; i++) checksum += buffer[i]"
SumBytes(buf, n) == SumRange(buf, 1, n)

buildCommand(command, parameters) ==
    LET paramBuffer == [i \in 1..Len(parameters) |-> parameters[i] % 256]
        length == 3 + Len(paramBuffer)
        head == <<STX, length % 256, command % 256>> \o paramBuffer
        checksum == SumBytes(head, length)
    IN  head \o <<checksum % 256>>

\* `${functionType}_${centralUnit}_${number}`
MessageId(functionType, centralUnit, number) == <<functionType, centralUnit, number>>

-----------------------------------------------------------------------------
(* The client as a value: the handlers below are functions from client     *)
(* to client, composed the way the statements of the source follow each    *)
(* other. sent, calls, events and thrown are what one operation produced:  *)
(* the frames given to socket.write, the subscriber invocations, the       *)
(* frames the demultiplexer classified, and the exception that left it.    *)

NoError == "none"

\* The fields of a new TeletaskConnection: no socket, no timer,
\* state = {connected: false, reconnectAttempts: 0}, autoReconnect on.
\* managerAttempts counts the connect attempts the reconnect timer has
\* started since the last 'connect' event; intervals counts the setInterval
\* timers that have not been cleared.
NewConnection ==
    [sockets |-> <<>>, current |-> 0, keepAliveTimer |-> FALSE,
     reconnectTimer |-> FALSE, reconnectAttempts |-> 0, autoReconnect |-> TRUE,
     managerAttempts |-> 0, disconnected |-> FALSE, intervals |-> 0]

\* The operation returned no value.
NoResult == [error |-> NoError]

Client ==
    [connected |-> connected, socket |-> socket, subscribers |-> subscribers,
     functionTypeLoggers |-> functionTypeLoggers,
     responseHandlers |-> responseHandlers, timers |-> timers,
     queries |-> queries, unitLogging |-> unitLogging, conn |-> conn,
     sent |-> <<>>, calls |-> <<>>, events |-> <<>>, thrown |-> NoError,
     result |-> NoResult, notified |-> <<>>, scan |-> <<>>]

Throw(c, error) == [c EXCEPT !.thrown = error]

\* What the central unit logs after it reads a frame: a LOG command
\* switches the logging of its function type on (0xFF) or off.
UnitReads(logging, buffer) ==
    IF At(buffer, 2) # LOG THEN logging
    ELSE IF At(buffer, 4) = LogStateON THEN logging \cup {At(buffer, 3)}
    ELSE logging \ {At(buffer, 3)}

\* TeletaskConnection.send; each written frame is logged with the message
\* ids that have a waiter at the moment of the write.
ConnectionSend(c, buffer) ==
    IF ~c.connected \/ c.socket = "null"
    THEN Throw(c, "NotConnected")
    ELSE [c EXCEPT !.sent = Append(@, [bytes |-> buffer,
                                       waiters |-> DOMAIN c.responseHandlers]),
                   !.unitLogging = UnitReads(@, buffer)]

sendCommand(c, command, parameters) ==
    IF ~c.connected
    THEN Throw(c, "NotConnected")
    ELSE ConnectionSend(c, buildCommand(command, parameters))

sendKeepAlive(c) == sendCommand(c, KEEP_ALIVE, <<>>)

-----------------------------------------------------------------------------
(* Request/response correlator *)

\* resolve(...) or reject(...) of the promise of query q: only the first
\* call decides the promise; every call is counted.
Settle(c, q, how, response) ==
    [c EXCEPT !.queries[q] =
        IF @.state = "pending"
        THEN [@ EXCEPT !.state = how, !.response = response, !.settled = @ + 1]
        ELSE [@ EXCEPT !.settled = @ + 1]]

\* Variant of the timeout callback that forgets responseHandlers.delete.
TimeoutHandlerKeepsEntry(c, messageId, q) ==
    Settle([c EXCEPT !.timers = @ \ {q}], q, "timeout", <<>>)

\* The setTimeout callback of waitForGet.
TimeoutHandler(c, messageId, q) ==
    Settle([c EXCEPT !.responseHandlers = MapDelete(@, messageId),
                     !.timers = @ \ {q}],
           q, "timeout", <<>>)

\* Variant of the stored closure that forgets clearTimeout.
ResponseHandlerKeepsTimer(c, messageId, q, response) ==
    Settle([c EXCEPT !.responseHandlers = MapDelete(@, messageId)],
           q, "resolved", response)

\* The closure waitForGet stores in responseHandlers.
ResponseHandler(c, messageId, q, response) ==
    Settle([c EXCEPT !.timers = @ \ {q},
                     !.responseHandlers = MapDelete(@, messageId)],
           q, "resolved", response)

\* Variant of the catch block that cleans up and forgets reject.
SendFailedWithoutReject(c, messageId, q) ==
    [c EXCEPT !.thrown = NoError,
              !.timers = @ \ {q},
              !.responseHandlers = MapDelete(@, messageId)]

\* Variant of the catch block that forgets clearTimeout.
SendFailedKeepsTimer(c, messageId, q) ==
    Settle([c EXCEPT !.thrown = NoError,
                     !.responseHandlers = MapDelete(@, messageId)],
           q, "sendError", <<>>)

\* Variant of the catch block that forgets responseHandlers.delete.
SendFailedKeepsEntry(c, messageId, q) ==
    Settle([c EXCEPT !.thrown = NoError, !.timers = @ \ {q}], q, "sendError", <<>>)

\* The catch block of waitForGet.
SendFailed(c, messageId, q) ==
    Settle([c EXCEPT !.thrown = NoError,
                     !.timers = @ \ {q},
                     !.responseHandlers = MapDelete(@, messageId)],
           q, "sendError", <<>>)

\* The promise executor of waitForGet up to the send: arm the timeout
\* with the delay this.responseTimeout, store the handler.
RegisterWaiter(c, messageId, q) ==
    [c EXCEPT !.timers = @ \cup {q},
              !.queries = Append(@, [messageId |-> messageId, state |-> "pending",
                                     response |-> <<>>, settled |-> 0,
                                     delay |-> responseTimeout]),
              !.responseHandlers = MapSet(@, messageId, q)]

\* Variant of waitForGet that writes the GET before it stores the handler.
waitForGetSendsFirst(c, parameters, messageId) ==
    LET q == Len(c.queries) + 1
        after == sendCommand(c, GET, parameters)
        registered == RegisterWaiter(after, messageId, q)
    IN  IF after.thrown # NoError THEN SendFailed(registered, messageId, q) ELSE registered

waitForGet(c, parameters, messageId) ==
    LET q == Len(c.queries) + 1
        registered == RegisterWaiter(c, messageId, q)
        after == sendCommand(registered, GET, parameters)
    IN  IF after.thrown # NoError THEN SendFailed(after, messageId, q) ELSE after

\* Variant that forgets every handler once a response has been handled.
handleGetResponseClearsHandlers(c, data) ==
    LET payload == PayloadOf(data)
        centralUnit == At(payload, 0)
        functionType == At(payload, 1)
        number == Number16(At(payload, 2), At(payload, 3))
        messageId == MessageId(functionType, centralUnit, number)
        response == [centralUnit |-> centralUnit, functionType |-> functionType,
                     number |-> number, payload |-> payload]
    IN  IF MapHas(c.responseHandlers, messageId)
        THEN LET handled == ResponseHandler(c, messageId,
                                            c.responseHandlers[messageId], response)
             IN  [handled EXCEPT !.responseHandlers = << >>]
        ELSE c

\* Variant that raises an error for a response nobody waits for.
handleGetResponseRejectsUnmatched(c, data) ==
    LET payload == PayloadOf(data)
        centralUnit == At(payload, 0)
        functionType == At(payload, 1)
        number == Number16(At(payload, 2), At(payload, 3))
        messageId == MessageId(functionType, centralUnit, number)
        response == [centralUnit |-> centralUnit, functionType |-> functionType,
                     number |-> number, payload |-> payload]
    IN  IF MapHas(c.responseHandlers, messageId)
        THEN LET handled == ResponseHandler(c, messageId,
                                            c.responseHandlers[messageId], response)
             IN  [handled EXCEPT !.responseHandlers = MapDelete(@, messageId)]
        ELSE Throw(c, "UnmatchedResponse")

handleGetResponse(c, data) ==
    LET payload == PayloadOf(data)
        centralUnit == At(payload, 0)
        functionType == At(payload, 1)
        number == Number16(At(payload, 2), At(payload, 3))
        messageId == MessageId(functionType, centralUnit, number)
        response == [centralUnit |-> centralUnit, functionType |-> functionType,
                     number |-> number, payload |-> payload]
    IN  IF MapHas(c.responseHandlers, messageId)
        THEN LET handled == ResponseHandler(c, messageId,
                                            c.responseHandlers[messageId], response)
             IN  [handled EXCEPT !.responseHandlers = MapDelete(@, messageId)]
        ELSE c

-----------------------------------------------------------------------------
(* Payload decoders and the promise a query call returns *)

\* Variant that takes every state byte but 0x00 for on.
parseRelayResponseAnyNonZero(response) ==
    IF Len(response.payload) < 6
    THEN [error |-> "InsufficientData"]
    ELSE [error |-> NoError, on |-> (At(response.payload, 5) # 0)]

parseRelayResponse(response) ==
    IF Len(response.payload) < 6
    THEN [error |-> "InsufficientData"]
    ELSE LET stateValue == At(response.payload, 5)
         IN  IF stateValue # 0 /\ stateValue # 255
             THEN [error |-> "InvalidState"]
             ELSE [error |-> NoError, on |-> (stateValue = 255)]

\* Variant that reports every further byte as the previous level.
parseDimmerResponseAnyPrevious(response) ==
    IF Len(response.payload) < 6
    THEN [error |-> "InsufficientData"]
    ELSE LET level == At(response.payload, 5)
         IN  IF level > MaxDimmerLevel
             THEN [error |-> "InvalidLevel"]
             ELSE IF Len(response.payload) >= 7
             THEN [error |-> NoError, on |-> (level > 0), level |-> level,
                   previousLevel |-> At(response.payload, 6)]
             ELSE [error |-> NoError, on |-> (level > 0), level |-> level]

parseDimmerResponse(response) ==
    IF Len(response.payload) < 6
    THEN [error |-> "InsufficientData"]
    ELSE LET level == At(response.payload, 5)
         IN  IF level > MaxDimmerLevel
             THEN [error |-> "InvalidLevel"]
             ELSE LET state == [error |-> NoError, on |-> (level > 0), level |-> level]
                      previousLevel == At(response.payload, 6)
                  IN  IF Len(response.payload) >= 7 /\ previousLevel <= MaxDimmerLevel
                      THEN [error |-> NoError, on |-> (level > 0), level |-> level,
                            previousLevel |-> previousLevel]
                      ELSE state

MotorProtectionState ==
    <<"NOT_DEFINED", "ON_CONTROLLED", "ON_NOT_CONTROLLED", "ON_OVERRULED", "OFF">>

\* The decoder queryMotor uses; timeToFinish is kept in centiseconds.
parseMotorResponse(response) ==
    IF Len(response.payload) < 14
    THEN [error |-> "InsufficientData"]
    ELSE LET direction == At(response.payload, 5)
             power == At(response.payload, 6)
             protection == At(response.payload, 7)
             position == At(response.payload, 8)
             currentPosition == At(response.payload, 9)
             timeToFinish == Number16(At(response.payload, 10), At(response.payload, 11))
             correctionZero == At(response.payload, 12)
             correctionHundred == At(response.payload, 13)
         IN  IF position > 100 \/ currentPosition > 100
             THEN [error |-> "InvalidPosition"]
             ELSE IF protection \notin 0..4
             THEN [error |-> "InvalidProtection"]
             ELSE [error |-> NoError,
                   moving |-> (power = 255),
                   direction |-> IF direction = 1 THEN "up"
                                 ELSE IF direction = 2 THEN "down" ELSE "stopped",
                   position |-> currentPosition,
                   targetPosition |-> position,
                   protection |-> [state |-> MotorProtectionState[protection + 1],
                                   controlled |-> (protection = 1)],
                   timeToFinishCentiseconds |-> timeToFinish,
                   calibration |-> [correctionAtZeroPercent |-> correctionZero,
                                    correctionAtHundredPercent |-> correctionHundred]]

-----------------------------------------------------------------------------
(* Sensor decoders. Temperatures are kept in tenths of a degree, the      *)
(* pulse counter total in thousandths; a field read from a byte the       *)
(* payload does not have is Undefined.                                    *)

\* The quotient num / den rounded to the nearest integer, halves away
\* from zero: what toFixed does to the digit it keeps.
RoundDiv(num, den) ==
    IF num >= 0 THEN (2 * num + den) \div (2 * den)
    ELSE 0 - ((2 * (0 - num) + den) \div (2 * den))

\* Variant that drops the tenths before it subtracts.
convertToTemperatureWholeDegrees(value) == (value \div 10 - 273) * 10

\* Number((value / 10 - 273).toFixed(1)), in tenths of a degree.
convertToTemperature(value) == RoundDiv((value - 2730) * 10, 10)

determineSensorType(payload) ==
    LET selector == At(payload, 1)
    IN  IF selector = 1 THEN "temperature"
        ELSE IF selector = 2 THEN "humidity"
        ELSE IF selector = 3 THEN "light"
        ELSE IF selector = 4 THEN "temperatureControl"
        ELSE IF selector = 5 THEN "pulseCounter"
        ELSE "generic"

parseTemperatureSensor(payload) ==
    LET rawValue == Number16(At(payload, 0), At(payload, 1))
    IN  IF rawValue >= 16128
        THEN [error |-> "SensorError"]
        ELSE [error |-> NoError, type |-> "temperature",
              temperature |-> convertToTemperature(rawValue), unit |-> "C"]

parseHumiditySensor(payload) ==
    [error |-> NoError, type |-> "humidity", humidity |-> At(payload, 0), unit |-> "%"]

\* The lux value 10^(raw / 40) - 1 is not evaluated: the raw value stands
\* for it.
parseLightSensor(payload) ==
    [error |-> NoError, type |-> "light",
     rawValue |-> Number16(At(payload, 0), At(payload, 1)), unit |-> "lux"]

parsePresetMode(value) ==
    IF value = 26 THEN "day"
    ELSE IF value = 25 THEN "night"
    ELSE IF value = 93 THEN "standby" ELSE "off"

parseOperationMode(value) ==
    IF value = 148 THEN "auto"
    ELSE IF value = 149 THEN "heat"
    ELSE IF value = 150 THEN "cool"
    ELSE IF value = 105 THEN "vent"
    ELSE IF value = 106 THEN "dry" ELSE "off"

parseFanSpeed(value) ==
    IF value = 151 THEN "low"
    ELSE IF value = 152 THEN "medium"
    ELSE IF value = 153 THEN "high" ELSE "auto"

parseTemperatureControlSensor(payload) ==
    [error |-> NoError, type |-> "temperatureControl",
     temperature |-> convertToTemperature(Number16(At(payload, 0), At(payload, 1))),
     targetTemperature |-> convertToTemperature(Number16(At(payload, 2), At(payload, 3))),
     dayPreset |-> convertToTemperature(Number16(At(payload, 4), At(payload, 5))),
     nightPreset |-> convertToTemperature(Number16(At(payload, 6), At(payload, 7))),
     standbyOffset |-> At(payload, 8),
     preset |-> parsePresetMode(At(payload, 9)),
     mode |-> parseOperationMode(At(payload, 10)),
     fanSpeed |-> parseFanSpeed(At(payload, 11)),
     state |-> IF At(payload, 12) = 255 THEN "on" ELSE "off",
     windowOpen |-> (At(payload, 13) = 255),
     outputState |-> At(payload, 14),
     swingDirection |-> At(payload, 15)]

\* payload.readUInt32BE(16) throws when the payload ends before offset 20.
parsePulseCounterSensor(payload) ==
    IF Len(payload) < 20
    THEN [error |-> "OutOfRange"]
    ELSE [error |-> NoError, type |-> "pulseCounter",
          current |-> Number16(At(payload, 0), At(payload, 1)),
          total |-> ((At(payload, 16) * 256 + At(payload, 17)) * 256
                     + At(payload, 18)) * 256 + At(payload, 19),
          unit |-> "kWh"]

\* payload.readUInt16BE(0) throws when the payload has fewer than 2 bytes.
parseGenericSensor(payload) ==
    IF Len(payload) < 2
    THEN [error |-> "OutOfRange"]
    ELSE [error |-> NoError, type |-> "generic",
          value |-> At(payload, 0) * 256 + At(payload, 1)]

parseSensorResponse(response) ==
    LET payload == response.payload
        sensorType == determineSensorType(payload)
    IN  IF sensorType = "temperature" THEN parseTemperatureSensor(payload)
        ELSE IF sensorType = "humidity" THEN parseHumiditySensor(payload)
        ELSE IF sensorType = "light" THEN parseLightSensor(payload)
        ELSE IF sensorType = "temperatureControl" THEN parseTemperatureControlSensor(payload)
        ELSE IF sensorType = "pulseCounter" THEN parsePulseCounterSensor(payload)
        ELSE parseGenericSensor(payload)

-----------------------------------------------------------------------------
(* The promise a query call returns *)

\* "const response = await this.waitForGet(...); return parseXResponse(response)":
\* the promise of the query call follows the promise of waitForGet, and a
\* decoder that throws rejects it.
QueryPromise(query) ==
    IF query.state = "pending" THEN [state |-> "pending"]
    ELSE IF query.state # "resolved" THEN [state |-> "rejected", error |-> query.state]
    ELSE LET parsed == IF query.messageId[1] = RELAY
                       THEN parseRelayResponse(query.response)
                       ELSE parseDimmerResponse(query.response)
         IN  IF parsed.error # NoError
             THEN [state |-> "rejected", error |-> parsed.error]
             ELSE [state |-> "fulfilled", value |-> parsed]

-----------------------------------------------------------------------------
(* Event dispatcher *)

RECURSIVE InvokeAll(_, _, _)
InvokeAll(c, callbacks, stateChange) ==
    IF callbacks = <<>> THEN c
    ELSE InvokeAll([c EXCEPT !.calls = Append(@, [callback |-> Head(callbacks),
                                                  change |-> stateChange])],
                   Tail(callbacks), stateChange)

\* Variant that reports the error byte (payload[4]) as the value.
handleEventReadsErrorByte(c, data) ==
    LET payload == PayloadOf(data)
        stateChange == [centralUnit |-> At(payload, 0),
                        functionType |-> At(payload, 1),
                        number |-> Number16(At(payload, 2), At(payload, 3)),
                        value |-> At(payload, 4)]
    IN  IF MapHas(c.subscribers, stateChange.functionType)
        THEN InvokeAll(c, c.subscribers[stateChange.functionType], stateChange)
        ELSE c

handleEvent(c, data) ==
    LET payload == PayloadOf(data)
        stateChange == [centralUnit |-> At(payload, 0),
                        functionType |-> At(payload, 1),
                        number |-> Number16(At(payload, 2), At(payload, 3)),
                        value |-> At(payload, 5)]
    IN  IF MapHas(c.subscribers, stateChange.functionType)
        THEN InvokeAll(c, c.subscribers[stateChange.functionType], stateChange)
        ELSE c

-----------------------------------------------------------------------------
(* Stream demultiplexer *)

Classified(c, command, message) ==
    [c EXCEPT !.events = Append(@, [command |-> command, message |-> message])]

\* Variant that takes the acknowledge for a two-byte unit.
AfterAcknowledgeSkipsTwo(currentIndex) == currentIndex + 2

\* "currentIndex++; continue" after an acknowledge byte.
AfterAcknowledge(currentIndex) == currentIndex + 1

\* Variant that handles one message per delivery and drops the rest.
NextMessageEndsScan(data, messageEnd) == Len(data)

\* "currentIndex = messageEnd" after a dispatched message.
NextMessage(data, messageEnd) == messageEnd

\* Variant that dispatches a message although its end lies behind the data.
TruncatedNever(data, messageEnd) == FALSE

\* "if (messageEnd > data.length) break"
Truncated(data, messageEnd) == messageEnd > Len(data)

\* Variant that gives up the delivery at a byte it does not recognise.
AfterUnknownByteEndsScan(data, currentIndex) == Len(data)

\* Variant that skips the byte behind an unrecognised byte as well.
AfterUnknownByteSkipsTwo(data, currentIndex) == currentIndex + 2

\* "currentIndex++" after a byte that is neither ACK nor STX.
AfterUnknownByte(data, currentIndex) == currentIndex + 1

\* "while (currentIndex < data.length)" is evaluated with this index.
Visit(c, currentIndex) == [c EXCEPT !.scan = Append(@, currentIndex)]

\* The while loop of handleResponse from index currentIndex on.
RECURSIVE Scan(_, _, _)
Scan(c0, data, currentIndex) ==
    LET c == Visit(c0, currentIndex)
    IN  IF currentIndex >= Len(data) THEN c
        ELSE IF At(data, currentIndex) = ACK
        THEN Scan(c, data, AfterAcknowledge(currentIndex))
        ELSE IF At(data, currentIndex) = STX THEN
            IF currentIndex + 1 >= Len(data) THEN c
            ELSE LET messageLength == At(data, currentIndex + 1)
                     messageEnd == currentIndex + messageLength + 1
                 IN  IF Truncated(data, messageEnd) THEN c
                     ELSE LET message == Slice(data, currentIndex, messageEnd)
                              command == At(message, 2)
                          IN  IF command = LOG
                              THEN Scan(handleEvent(Classified(c, LOG, message), message),
                                        data, NextMessage(data, messageEnd))
                              ELSE IF command = KEEP_ALIVE
                              THEN Scan(Classified(c, KEEP_ALIVE, message),
                                        data, NextMessage(data, messageEnd))
                              ELSE IF command = RESPONSE
                              THEN Scan(handleGetResponse(
                                            Classified(c, RESPONSE, message), message),
                                        data, NextMessage(data, messageEnd))
                              ELSE Throw(c, "UnknownCommand")
        ELSE Scan(c, data, AfterUnknownByte(data, currentIndex))

handleResponse(c, data) == Scan(c, data, 0)

-----------------------------------------------------------------------------
(* Subscription manager *)

functionTypeLogging(c, functionType, enabled) ==
    IF functionType \notin FunctionType
    THEN Throw(c, "InvalidFunctionType")
    ELSE LET after == sendCommand(c, LOG, <<functionType,
                                           IF enabled THEN LogStateON ELSE LogStateOFF>>)
         IN  IF after.thrown # NoError THEN after
             ELSE [after EXCEPT !.functionTypeLoggers = MapSet(@, functionType, enabled)]

SeqHas(s, x) == \E i \in 1..Len(s) : s[i] = x

SeqWithout(s, x) == SelectSeq(s, LAMBDA y : y # x)

\* Variant that enables logging on every subscribe.
subscribeAlwaysEnables(c, functionType, callback) ==
    IF functionType \notin FunctionType
    THEN Throw(c, "InvalidFunctionType")
    ELSE LET have == IF MapHas(c.subscribers, functionType)
                     THEN c.subscribers[functionType] ELSE <<>>
             added == IF SeqHas(have, callback) THEN have ELSE Append(have, callback)
             c1 == [c EXCEPT !.subscribers = MapSet(@, functionType, added)]
         IN  functionTypeLogging(c1, functionType, TRUE)

subscribe(c, functionType, callback) ==
    IF functionType \notin FunctionType
    THEN Throw(c, "InvalidFunctionType")
    ELSE LET have == IF MapHas(c.subscribers, functionType)
                     THEN c.subscribers[functionType] ELSE <<>>
             added == IF SeqHas(have, callback) THEN have ELSE Append(have, callback)
             c1 == [c EXCEPT !.subscribers = MapSet(@, functionType, added)]
             logging == MapHas(c1.functionTypeLoggers, functionType)
                        /\ c1.functionTypeLoggers[functionType]
         IN  IF ~logging THEN functionTypeLogging(c1, functionType, TRUE) ELSE c1

unsubscribe(c, functionType, callback) ==
    IF MapHas(c.subscribers, functionType)
    THEN LET left == SeqWithout(c.subscribers[functionType], callback)
             c1 == [c EXCEPT !.subscribers = MapSet(@, functionType, left)]
         IN  IF Len(left) = 0 THEN functionTypeLogging(c1, functionType, FALSE) ELSE c1
    ELSE c

\* The onConnectionReady handler registered by the constructor: the
\* forEach stops at the first functionTypeLogging that throws.
RECURSIVE ReEnable(_, _)
ReEnable(c, types) ==
    IF types = {} \/ c.thrown # NoError THEN c
    ELSE LET functionType == CHOOSE t \in types : \A u \in types : t <= u
         IN  ReEnable(functionTypeLogging(c, functionType,
                                          c.functionTypeLoggers[functionType]),
                      types \ {functionType})

onConnectionReady(c) ==
    LET after == sendKeepAlive(c)
    IN  IF after.thrown # NoError THEN after
        ELSE ReEnable(after, DOMAIN after.functionTypeLoggers)

-----------------------------------------------------------------------------
(* TeletaskConnection: the socket, its timers and the reconnect logic *)

\* this.options.maxReconnectAttempts as the model configures it (the
\* default is 10).
maxReconnectAttempts == MaxReconnectAttempts

\* A socket connect() has just created.  byManager: the reconnect closure
\* awaits this attempt; rejected: that closure's catch has yet to run.
NewSocket(byManager) ==
    [status |-> "connecting", closePending |-> FALSE, byManager |-> byManager,
     promise |-> "pending", rejected |-> FALSE]

\* A socket after its 'close': no event of it follows, and nothing settles
\* the promise of its connect() any more; a catch that its 'error' queued
\* still runs.
ClosedSocket(sock) ==
    [status |-> "closed", closePending |-> FALSE, byManager |-> FALSE,
     promise |-> "closed", rejected |-> sock.rejected]

\* The connection's handlers are called: onConnected, onDisconnected,
\* onConnectionError, onReconnecting; "maximumAttemptsReached" is
\* onConnectionError with 'Maximum number of reconnection attempts reached';
\* "connect" is socket.connect().
Notify(c, event, arg) ==
    [c EXCEPT !.notified = Append(@, [event |-> event, arg |-> arg])]

\* What send() sees of this.socket.
SocketView(k) ==
    IF k.current = 0 THEN "null"
    ELSE IF k.sockets[k.current].status = "connected" THEN "open" ELSE "closed"

stopReconnectTimer(c) == [c EXCEPT !.conn.reconnectTimer = FALSE]

\* Variant that forgets the interval without clearing it.
stopKeepAliveForgetsClear(c) == [c EXCEPT !.conn.keepAliveTimer = FALSE]

stopKeepAlive(c) ==
    IF c.conn.keepAliveTimer
    THEN [c EXCEPT !.conn.keepAliveTimer = FALSE, !.conn.intervals = @ - 1]
    ELSE c

startKeepAlive(c) ==
    [stopKeepAlive(c) EXCEPT !.conn.keepAliveTimer = TRUE, !.conn.intervals = @ + 1]

\* The interval callback of startKeepAlive: the onKeepAlive handler of the
\* client sends the keep-alive frame.
keepAlive(c) == IF c.connected THEN sendKeepAlive(c) ELSE c

\* socket.destroy(): a socket that is connecting or connected emits 'close'
\* later; destroying a socket that is already closing does nothing.
destroy(c, i) ==
    IF i = 0 \/ c.conn.sockets[i].status \notin {"connecting", "connected"} THEN c
    ELSE [c EXCEPT !.conn.sockets[i].status = "destroyed",
                   !.conn.sockets[i].closePending = TRUE]

scheduleReconnect(c) ==
    LET stopped == stopReconnectTimer(c)
        attempts == stopped.conn.reconnectAttempts
    IN  IF attempts >= maxReconnectAttempts
        THEN Notify(stopped, "maximumAttemptsReached", attempts)
        ELSE Notify([stopped EXCEPT !.conn.reconnectAttempts = attempts + 1,
                                    !.conn.reconnectTimer = TRUE],
                    "onReconnecting", attempts + 1)

\* connect(): the socket the connection holds is destroyed and a new one
\* starts connecting.
connect(c, byManager) ==
    LET old == destroy(c, c.conn.current)
        new == Len(old.conn.sockets) + 1
    IN  Notify([old EXCEPT !.conn.sockets = Append(@, NewSocket(byManager)),
                           !.conn.current = new,
                           !.conn.managerAttempts = IF byManager THEN @ + 1 ELSE @,
                           !.conn.disconnected = IF byManager THEN @ ELSE FALSE,
                           !.socket = "closed"],
               "connect", new)

disconnect(c) ==
    LET stopped == stopKeepAlive(stopReconnectTimer(
                       [c EXCEPT !.conn.autoReconnect = FALSE]))
        gone == destroy(stopped, stopped.conn.current)
    IN  [gone EXCEPT !.conn.current = 0, !.conn.disconnected = TRUE,
                     !.socket = "null"]

\* A handler the application registered may call disconnect().
ApplicationHandler(c, disconnects) == IF disconnects THEN disconnect(c) ELSE c

\* The socket's 'connect' and 'ready' handlers.
onSocketConnect(c, i) ==
    LET up == [c EXCEPT !.connected = TRUE,
                        !.conn.reconnectAttempts = 0,
                        !.conn.managerAttempts = 0,
                        !.conn.sockets[i].status = "connected",
                        !.conn.sockets[i].promise = "resolved"]
        started == startKeepAlive(Notify(up, "onConnected", i))
    IN  onConnectionReady([started EXCEPT !.socket = SocketView(started.conn)])

\* The socket's 'error' handler; the socket's 'close' follows.
onSocketError(c, i, disconnects) ==
    LET failed == [c EXCEPT !.conn.sockets[i].status = "failed",
                            !.conn.sockets[i].closePending = TRUE,
                            !.socket = SocketView(
                                [c.conn EXCEPT !.sockets[i].status = "failed"])]
        told == ApplicationHandler(Notify(failed, "onConnectionError", i),
                                   disconnects)
        sock == told.conn.sockets[i]
    IN  IF ~told.connected /\ sock.promise = "pending"
        THEN [told EXCEPT !.conn.sockets[i].promise = "rejected",
                          !.conn.sockets[i].rejected = sock.byManager]
        ELSE told

\* The socket's 'close' handler.
onSocketClose(c, i, disconnects) ==
    LET closed == [c EXCEPT !.conn.sockets[i] = ClosedSocket(@),
                            !.connected = FALSE,
                            !.socket = SocketView(
                                [c.conn EXCEPT !.sockets[i].status = "closed"])]
        told == ApplicationHandler(Notify(stopKeepAlive(closed), "onDisconnected", i),
                                   disconnects)
    IN  IF told.conn.autoReconnect THEN scheduleReconnect(told) ELSE told

\* The reconnect closure: the timer fired.
reconnect(c) == connect(c, TRUE)

\* The reconnect closure's catch: the attempt it awaited was rejected.
reconnectFailed(c, i) ==
    scheduleReconnect([c EXCEPT !.conn.sockets[i].rejected = FALSE])

-----------------------------------------------------------------------------
(* Frames the central unit writes *)

Hi(n) == (n \div 256) % 256

Lo(n) == n % 256

ResponseFrame(functionType, centralUnit, number, value) ==
    buildCommand(RESPONSE, <<centralUnit, functionType, Hi(number), Lo(number), 0, value>>)

LogFrame(functionType, centralUnit, number, value) ==
    buildCommand(LOG, <<centralUnit, functionType, Hi(number), Lo(number), 0, value>>)

KeepAliveFrame == buildCommand(KEEP_ALIVE, <<>>)

\* Replies to the keys the model queries, and replies whose key differs
\* from a queried key in one component.
ResponseFrames ==
    {ResponseFrame(RELAY, 1, 5, v) : v \in StateBytes}
        \cup {ResponseFrame(DIMMER, 2, 522, 255)}
        \cup {ResponseFrame(RELAY, 2, 5, 255), ResponseFrame(RELAY, 1, 522, 255),
              ResponseFrame(DIMMER, 1, 5, 255)}

\* A relay reply cut after the item number.
ShortRelayResponse == buildCommand(RESPONSE, <<1, RELAY, 0, 5>>)

\* What the correlator specification delivers: one whole unit per delivery.
SingleDeliveries == ResponseFrames \cup {ShortRelayResponse} \cup {LogFrame(RELAY, 1, 5, 255), KeepAliveFrame, <<ACK>>}

-----------------------------------------------------------------------------
(* State after construction *)

\* No frame is half delivered.
NoSplit == [frame |-> <<>>, rest |-> <<>>, events |-> <<>>]

RECURSIVE Flatten(_)
Flatten(pieces) == IF pieces = <<>> THEN <<>> ELSE Head(pieces) \o Flatten(Tail(pieces))

OpRecord(op, q, data, pieces, c, split) ==
    [op |-> op, q |-> q, data |-> data, pieces |-> pieces, sent |-> c.sent,
     calls |-> c.calls, events |-> c.events, thrown |-> c.thrown,
     result |-> c.result, notified |-> c.notified, scan |-> c.scan,
     split |-> split]

\* options.connection.responseTimeout as the caller may give it: left out,
\* shorter than the default, the default, longer.
ResponseTimeoutOptions == {Undefined, 1000, 4000, 10000}

\* No handler has run since the record of the last one was read.
Idle == lastOp.op = "idle"

Init ==
    /\ connected = FALSE
    /\ socket = "null"
    /\ subscribers = EmptyMap
    /\ functionTypeLoggers = EmptyMap
    /\ responseHandlers = EmptyMap
    /\ timers = {}
    /\ queries = <<>>
    /\ pendingRest = NoSplit
    /\ unitLogging = {}
    /\ responseTimeoutOption = Undefined
    /\ conn = NewConnection
    /\ lastOp = OpRecord("idle", 0, <<>>, <<>>, Client, NoSplit)

\* The state after construction with connection options.
InitWithOptions ==
    /\ connected = FALSE
    /\ socket = "null"
    /\ subscribers = EmptyMap
    /\ functionTypeLoggers = EmptyMap
    /\ responseHandlers = EmptyMap
    /\ timers = {}
    /\ queries = <<>>
    /\ pendingRest = NoSplit
    /\ unitLogging = {}
    /\ responseTimeoutOption \in ResponseTimeoutOptions
    /\ conn = NewConnection
    /\ lastOp = OpRecord("idle", 0, <<>>, <<>>, Client, NoSplit)

\* The client after an operation, and the record of the operation.
Commit(c, op, q, data, pieces, split) ==
    /\ connected' = c.connected
    /\ socket' = c.socket
    /\ subscribers' = c.subscribers
    /\ functionTypeLoggers' = c.functionTypeLoggers
    /\ responseHandlers' = c.responseHandlers
    /\ timers' = c.timers
    /\ queries' = c.queries
    /\ unitLogging' = c.unitLogging
    /\ responseTimeoutOption' = responseTimeoutOption
    /\ conn' = c.conn
    /\ lastOp' = OpRecord(op, q, data, pieces, c, split)

-----------------------------------------------------------------------------
(* Queries *)

ValidRange(value, min, max) == value >= min /\ value <= max

\* queryRelay / queryDimmer: validateRange twice, then waitForGet. A call
\* that fails validation throws before any waiter or frame exists.
Query(functionType, centralUnit, number, op) ==
    /\ Len(queries) < MaxQueries
    /\ pendingRest' = pendingRest
    /\ IF ValidRange(centralUnit, MinCentralUnit, MaxCentralUnit)
          /\ ValidRange(number, 0, MaxComponentNumber)
       THEN Commit(waitForGet(Client,
                              <<centralUnit, functionType, Hi(number), Lo(number)>>,
                              MessageId(functionType, centralUnit, number)),
                   op, Len(queries) + 1, <<centralUnit, number>>, <<>>, NoSplit)
       ELSE Commit(Throw(Client, "RangeError"), op, 0, <<centralUnit, number>>, <<>>,
                   NoSplit)

queryRelay(centralUnit, relay) == Query(RELAY, centralUnit, relay, "queryRelay")

queryDimmer(centralUnit, dimmer) == Query(DIMMER, centralUnit, dimmer, "queryDimmer")

-----------------------------------------------------------------------------
(* Commands *)

\* setRelay: the command is sent as given.
setRelay(c, centralUnit, relay, state) ==
    sendCommand(c, SET, <<centralUnit, RELAY, Hi(relay), Lo(relay),
                          IF state THEN 255 ELSE 0>>)

\* setDimmer: only the level is checked.
setDimmer(c, centralUnit, dimmer, level) ==
    IF level < 0 \/ level > MaxDimmerLevel
    THEN Throw(c, "InvalidLevel")
    ELSE sendCommand(c, SET, <<centralUnit, DIMMER, Hi(dimmer), Lo(dimmer), level>>)

SetRelay(centralUnit, relay, state) ==
    /\ pendingRest' = pendingRest
    /\ Commit(setRelay(Client, centralUnit, relay, state),
              "setRelay", 0, <<centralUnit, relay>>, <<>>, NoSplit)

SetDimmer(centralUnit, dimmer, level) ==
    /\ pendingRest' = pendingRest
    /\ Commit(setDimmer(Client, centralUnit, dimmer, level),
              "setDimmer", 0, <<centralUnit, dimmer, level>>, <<>>, NoSplit)

\* The keep-alive interval fires: it runs from the socket's 'connect' to
\* its 'close' or to disconnect(), and its callback checks the state.
KeepAliveTick ==
    /\ socket = "open"
    /\ connected
    /\ pendingRest' = pendingRest
    /\ Commit(sendKeepAlive(Client), "keepAlive", 0, <<>>, <<>>, NoSplit)

\* A decoder called with a RESPONSE whose payload is given: the call
\* returns the decoded state or throws.
Decode(op, payload, decoded) ==
    /\ pendingRest' = pendingRest
    /\ Commit([Client EXCEPT !.result = decoded, !.thrown = decoded.error],
              op, 0, payload, <<>>, NoSplit)

ParseRelay(payload) ==
    Decode("parseRelayResponse", payload, parseRelayResponse([payload |-> payload]))

ParseDimmer(payload) ==
    Decode("parseDimmerResponse", payload, parseDimmerResponse([payload |-> payload]))

ParseMotor(payload) ==
    Decode("parseMotorResponse", payload, parseMotorResponse([payload |-> payload]))

ParseSensor(payload) ==
    Decode("parseSensorResponse", payload, parseSensorResponse([payload |-> payload]))

ParseTemperature(payload) ==
    Decode("parseTemperatureSensor", payload, parseTemperatureSensor(payload))

\* buildCommand called with a command byte and a parameter sequence.
BuildCommand(command, parameters) ==
    /\ pendingRest' = pendingRest
    /\ Commit(Client, "buildCommand", command, buildCommand(command, parameters),
              <<parameters>>, NoSplit)

-----------------------------------------------------------------------------
(* Timeouts *)

\* The timeout of query q fires.
Timeout(q) ==
    /\ q \in timers
    /\ pendingRest' = pendingRest
    /\ Commit(TimeoutHandler(Client, queries[q].messageId, q),
              "timeout", q, <<>>, <<>>, NoSplit)

-----------------------------------------------------------------------------
(* Transport events *)

\* connect(), then the socket's 'connect' and 'ready' events. The unit
\* logs nothing for a new connection.
SocketConnect ==
    /\ ~connected
    /\ socket \in {"null", "closed"}
    /\ pendingRest' = pendingRest
    /\ Commit(onConnectionReady([Client EXCEPT !.connected = TRUE, !.socket = "open",
                                                !.unitLogging = {}]),
              "ready", 0, <<>>, <<>>, NoSplit)

\* The socket's 'close' event.
SocketClose ==
    /\ connected
    /\ pendingRest' = NoSplit
    /\ Commit([Client EXCEPT !.connected = FALSE,
                             !.socket = IF @ = "open" THEN "closed" ELSE @,
                             !.unitLogging = {}],
              "close", 0, <<>>, <<>>, NoSplit)

\* disconnect(): the socket is destroyed and forgotten; its 'close' follows.
Disconnect ==
    /\ socket = "open"
    /\ pendingRest' = NoSplit
    /\ Commit([Client EXCEPT !.socket = "null", !.unitLogging = {}],
              "disconnect", 0, <<>>, <<>>, NoSplit)

\* The socket's 'data' event: one delivered chunk, the concatenation of
\* whole pieces (frames, acknowledge bytes, stray bytes).
DataReceived(pieces) ==
    /\ socket = "open"
    /\ pendingRest = NoSplit
    /\ pendingRest' = pendingRest
    /\ Commit(handleResponse(Client, Flatten(pieces)),
              "data", 0, Flatten(pieces), pieces, NoSplit)

\* The socket's 'data' event with the first k bytes of a frame: the
\* transport still holds the rest.
DataReceivedFirstChunk(frame, k) ==
    /\ socket = "open"
    /\ pendingRest = NoSplit
    /\ LET first == SubSeq(frame, 1, k)
           c == handleResponse(Client, first)
       IN  /\ pendingRest' = [frame |-> frame, rest |-> SubSeq(frame, k + 1, Len(frame)),
                              events |-> c.events]
           /\ Commit(c, "data", 0, first, <<first>>, NoSplit)

\* The socket's 'data' event: a chunk of whole pieces that ends inside a
\* frame, after the first k bytes of it.
DataReceivedTruncated(pieces, frame, k) ==
    /\ socket = "open"
    /\ pendingRest = NoSplit
    /\ pendingRest' = pendingRest
    /\ LET data == Flatten(pieces) \o SubSeq(frame, 1, k)
       IN  Commit(handleResponse(Client, data), "truncated", k, data, pieces, NoSplit)

\* The socket's 'data' event with the rest of the frame.
DataReceivedRest ==
    /\ socket = "open"
    /\ pendingRest # NoSplit
    /\ pendingRest' = NoSplit
    /\ LET c == handleResponse(Client, pendingRest.rest)
       IN  Commit(c, "data", 0, pendingRest.rest, <<pendingRest.rest>>,
                  [frame |-> pendingRest.frame, rest |-> <<>>,
                   events |-> pendingRest.events \o c.events])

-----------------------------------------------------------------------------
(* Subscriptions *)

Subscribe(functionType, callback) ==
    /\ pendingRest' = pendingRest
    /\ Commit(subscribe(Client, functionType, callback),
              "subscribe", 0, <<functionType>>, <<>>, NoSplit)

Unsubscribe(functionType, callback) ==
    /\ pendingRest' = pendingRest
    /\ Commit(unsubscribe(Client, functionType, callback),
              "unsubscribe", 0, <<functionType>>, <<>>, NoSplit)

-----------------------------------------------------------------------------
(* The correlator: queries, their timeouts and whole-frame deliveries *)

Next ==
    \/ \E a \in RelayInputs : queryRelay(a[1], a[2])
    \/ \E a \in DimmerInputs : queryDimmer(a[1], a[2])
    \/ \E q \in 1..MaxQueries : Timeout(q)
    \/ \E d \in SingleDeliveries : DataReceived(<<d>>)
    \/ SocketConnect
    \/ SocketClose

Spec == Init /\ [][Next]_vars

\* The same with fewer queries, and timers that fire: the event loop runs
\* every armed timeout callback.
FairNext ==
    \/ Len(queries) < MaxFairQueries /\ \E a \in RelayInputs : queryRelay(a[1], a[2])
    \/ Len(queries) < MaxFairQueries /\ \E a \in DimmerInputs : queryDimmer(a[1], a[2])
    \/ \E q \in 1..MaxFairQueries : Timeout(q)
    \/ \E d \in SingleDeliveries : DataReceived(<<d>>)
    \/ SocketConnect
    \/ SocketClose

FairSpec == Init /\ [][FairNext]_vars /\ \A q \in 1..MaxFairQueries : WF_vars(Timeout(q))

\* The same queries on a client constructed with connection options.
OptionsSpec == InitWithOptions /\ [][FairNext]_vars

-----------------------------------------------------------------------------
(* The demultiplexer: deliveries of several pieces, and split frames *)

DemuxLog == LogFrame(RELAY, 2, 522, 255)

DemuxResponse == ResponseFrame(RELAY, 1, 5, 255)

ValidFrames == {DemuxLog, DemuxResponse, KeepAliveFrame}

\* A complete, well-formed frame whose command (SET) the client does not
\* expect from the unit.
UnknownFrame == buildCommand(SET, <<1, RELAY, 0, 5, 255>>)

Pieces == ValidFrames \cup {<<ACK>>, <<85>>, UnknownFrame}

Deliveries == UNION {[1..n -> Pieces] : n \in 1..MaxPieces}

SplitFrames == {DemuxLog, DemuxResponse}

\* The last operation's record is dropped: control is back in the event loop.
HandlerReturns ==
    /\ ~Idle
    /\ lastOp' = [lastOp EXCEPT !.op = "idle", !.q = 0, !.data = <<>>, !.pieces = <<>>,
                                !.sent = <<>>, !.calls = <<>>, !.events = <<>>,
                                !.thrown = NoError, !.result = NoResult,
                                !.notified = <<>>, !.scan = <<>>,
                                !.split = NoSplit]
    /\ UNCHANGED <<connected, socket, subscribers, functionTypeLoggers,
                   responseHandlers, timers, queries, pendingRest, unitLogging,
                   responseTimeoutOption, conn>>

\* Each record is dropped before the next operation starts.
DemuxNext ==
    \/ Idle /\ Len(queries) < MaxDemuxQueries /\ queryRelay(1, 5)
    \/ Idle /\ \E q \in 1..MaxDemuxQueries : Timeout(q)
    \/ Idle /\ Subscribe(RELAY, "cb1")
    \/ Idle /\ Unsubscribe(RELAY, "cb1")
    \/ Idle /\ \E d \in Deliveries : DataReceived(d)
    \/ Idle /\ \E f \in SplitFrames : \E k \in 1..(Len(f) - 1) : DataReceivedFirstChunk(f, k)
    \/ Idle /\ \E d \in Deliveries, f \in SplitFrames :
                   /\ Len(d) < MaxPieces
                   /\ \E k \in {1, 2, Len(f) - 1} : DataReceivedTruncated(d, f, k)
    \/ Idle /\ DataReceivedRest
    \/ Idle /\ SocketConnect
    \/ Idle /\ SocketClose
    \/ HandlerReturns

DemuxSpec == Init /\ [][DemuxNext]_vars

-----------------------------------------------------------------------------
(* The subscription registry: two callbacks, two function types, LOG       *)
(* frames, and a connection that comes and goes                            *)

SubscribedTypes == {RELAY, DIMMER}

\* LOG frames of the subscribed types and of a type nobody subscribes to.
LogFrames == {LogFrame(RELAY, 1, 5, 255), LogFrame(DIMMER, 2, 522, 40),
              LogFrame(MOTOR, 1, 5, 255)}

SubscriptionNext ==
    \/ \E t \in SubscribedTypes, cb \in Callbacks : Subscribe(t, cb)
    \/ \E t \in SubscribedTypes, cb \in Callbacks : Unsubscribe(t, cb)
    \/ \E f \in LogFrames : DataReceived(<<f>>)
    \/ SocketConnect
    \/ SocketClose

SubscriptionSpec == Init /\ [][SubscriptionNext]_vars

-----------------------------------------------------------------------------
(* The public interface: commands, queries, subscriptions and keep-alive   *)
(* on a connection that is opened, lost and closed by the caller           *)

ApiNext ==
    \/ Len(queries) < MaxApiQueries /\ \E a \in ComponentInputs : queryRelay(a[1], a[2])
    \/ Len(queries) < MaxApiQueries /\ \E a \in ComponentInputs : queryDimmer(a[1], a[2])
    \/ \E q \in 1..MaxApiQueries : Timeout(q)
    \/ \E a \in ComponentInputs, state \in BOOLEAN : SetRelay(a[1], a[2], state)
    \/ \E a \in ComponentInputs, level \in LevelInputs : SetDimmer(a[1], a[2], level)
    \/ Subscribe(RELAY, "cb1")
    \/ Unsubscribe(RELAY, "cb1")
    \/ KeepAliveTick
    \/ DataReceived(<<ResponseFrame(RELAY, 1, 5, 255)>>)
    \/ SocketConnect
    \/ SocketClose
    \/ Disconnect

ApiSpec == Init /\ [][ApiNext]_vars

-----------------------------------------------------------------------------
(* The frame codec on its own *)

CodecNext ==
    \E command \in CommandBytes, parameters \in ShortParameters \cup LongParameters :
        BuildCommand(command, parameters)

CodecSpec == Init /\ [][CodecNext]_vars

-----------------------------------------------------------------------------
(* The payload decoders on their own: one call at a time *)

DecodeNext ==
    \/ Idle /\ \E payload \in RelayPayloads \cup ShortRelayPayloads : ParseRelay(payload)
    \/ Idle /\ \E payload \in DimmerPayloads \cup ShortDimmerPayloads : ParseDimmer(payload)
    \/ Idle /\ \E payload \in MotorPayloads \cup ShortMotorPayloads : ParseMotor(payload)
    \/ Idle /\ \E payload \in SensorPayloads \cup ShortSensorPayloads : ParseSensor(payload)
    \/ Idle /\ \E payload \in TemperaturePayloads : ParseTemperature(payload)
    \/ HandlerReturns

DecodeSpec == Init /\ [][DecodeNext]_vars

-----------------------------------------------------------------------------
(* The connection: connect(), disconnect(), socket events, reconnect timer *)

\* No rejected promise waits for its catch: promise reactions run before
\* any timer, any new socket event and any call of the application.
Settled == \A i \in DOMAIN conn.sockets : ~conn.sockets[i].rejected

\* No socket has its 'close' outstanding either: a socket that failed or was
\* destroyed emits 'close' in the same turn of the event loop, before any
\* timer fires and before another socket connects or fails.
Quiet == Settled /\ \A i \in DOMAIN conn.sockets : ~conn.sockets[i].closePending

ConnCommit(c, op, q) ==
    /\ pendingRest' = pendingRest
    /\ Commit(c, op, q, <<>>, <<>>, NoSplit)

\* The application calls connect(), from its own code or from a handler the
\* connection has just called.
ConnectCalled ==
    /\ Settled
    /\ Len(conn.sockets) < MaxSockets
    /\ ConnCommit(connect(Client, FALSE), "connect", 0)

\* The application calls disconnect().
DisconnectCalled ==
    /\ Settled
    /\ ConnCommit(disconnect(Client), "disconnect", 0)

\* A connecting socket is connected.
SocketConnected(i) ==
    /\ Quiet
    /\ conn.sockets[i].status = "connecting"
    /\ ConnCommit(onSocketConnect(Client, i), "socketConnect", i)

\* A socket fails: the attempt is refused, or the connection breaks.
SocketFailed(i, disconnects) ==
    /\ Quiet
    /\ conn.sockets[i].status \in {"connecting", "connected"}
    /\ ConnCommit(onSocketError(Client, i, disconnects), "socketError", i)

\* A socket is closed: after its error, after its destroy(), or by the
\* central unit.  The 'close' that follows an 'error' is emitted with it,
\* so it may come before the rejected promise's catch.
SocketClosed(i, disconnects) ==
    /\ \/ conn.sockets[i].closePending /\ (Settled \/ conn.sockets[i].rejected)
       \/ conn.sockets[i].status = "connected" /\ Quiet
    /\ ConnCommit(onSocketClose(Client, i, disconnects), "socketClose", i)

\* The catch of the reconnect closure runs.
ReconnectRejected(i) ==
    /\ conn.sockets[i].rejected
    /\ ConnCommit(reconnectFailed(Client, i), "reconnectFailed", i)

\* The reconnect timer fires.
ReconnectTimerFires ==
    /\ Quiet
    /\ conn.reconnectTimer
    /\ Len(conn.sockets) < MaxSockets
    /\ ConnCommit(reconnect([Client EXCEPT !.conn.reconnectTimer = FALSE]),
                  "reconnect", 0)

\* A keep-alive interval that has not been cleared fires.
KeepAliveTimerFires ==
    /\ Quiet
    /\ conn.intervals > 0
    /\ ConnCommit(keepAlive(Client), "keepAlive", 0)

ConnNext ==
    \/ ConnectCalled
    \/ DisconnectCalled
    \/ \E i \in DOMAIN conn.sockets : SocketConnected(i)
    \/ \E i \in DOMAIN conn.sockets, disconnects \in BOOLEAN : SocketFailed(i, disconnects)
    \/ \E i \in DOMAIN conn.sockets, disconnects \in BOOLEAN : SocketClosed(i, disconnects)
    \/ \E i \in DOMAIN conn.sockets : ReconnectRejected(i)
    \/ ReconnectTimerFires
    \/ KeepAliveTimerFires

ConnSpec == Init /\ [][ConnNext]_vars

-----------------------------------------------------------------------------
(* The scan of handleResponse over arbitrary buffers *)

\* Byte values with a meaning for the scan (start marker, acknowledge, the
\* three commands, the length bytes 0, 1, 2, 3) and one without.
ScanBytes == {0, 1, STX, LOG, ACK, KEEP_ALIVE, RESPONSE, 255}

ScanBuffers == UNION {[1..n -> ScanBytes] : n \in 1..MaxScanLength}

ScanNext ==
    \/ Idle /\ Len(queries) < MaxDemuxQueries /\ queryRelay(1, 5)
    \/ Idle /\ Subscribe(RELAY, "cb1")
    \/ Idle /\ \E data \in ScanBuffers : DataReceived(<<data>>)
    \/ Idle /\ SocketConnect
    \/ HandlerReturns

ScanSpec == Init /\ [][ScanNext]_vars

-----------------------------------------------------------------------------
(* Vocabulary of the correlator claims *)

QueryOps == {"queryRelay", "queryDimmer"}

Issued == 1..Len(queries)

Unsettled == {q \in Issued : queries[q].state = "pending"}

\* The composite key a RESPONSE frame carries on the wire:
\* STX LEN CMD centralUnit functionType numberMSB numberLSB error value CHK
WireKey(frame) == <<frame[5], frame[4], frame[6] * 256 + frame[7]>>

WirePayload(frame) == SubSeq(frame, 4, Len(frame) - 1)

ResponseDelivered == lastOp'.op = "data" /\ lastOp'.data \in ResponseFrames

\* Query q owns an entry of the pending map.
HasWaiter(handlers, q) == \E m \in DOMAIN handlers : handlers[m] = q

ResolvedBy(q, frame) ==
    /\ queries'[q].state = "resolved"
    /\ queries'[q].response.payload = WirePayload(frame)

\* C1: when the unsettled queries have pairwise different keys, there are
\* several of them, and a RESPONSE carrying the key of one of them is
\* received, that query is resolved with the frame's payload and every
\* other one stays as it was.
C1_CorrelatorMatching ==
    [][ResponseDelivered =>
        LET k == WireKey(lastOp'.data)
        IN  (/\ Cardinality(Unsettled) >= 2
             /\ \A a, b \in Unsettled :
                    a # b => queries[a].messageId # queries[b].messageId
             /\ \E q \in Unsettled : queries[q].messageId = k)
            => \A q \in Unsettled :
                   IF queries[q].messageId = k
                   THEN ResolvedBy(q, lastOp'.data)
                   ELSE queries'[q] = queries[q] /\ q \in timers']_vars

\* C2: there is never more than one unsettled query for one composite key.
C2_OnePendingPerKey ==
    \A a, b \in Unsettled : a # b => queries[a].messageId # queries[b].messageId

\* C3: every unsettled query whose timeout has not fired is resolved by a
\* RESPONSE that carries its key, and its waiter is removed.
C3_ResponseResolves ==
    [][ResponseDelivered =>
        \A q \in Unsettled :
            (q \in timers /\ queries[q].messageId = WireKey(lastOp'.data))
            => (ResolvedBy(q, lastOp'.data) /\ ~HasWaiter(responseHandlers', q))]_vars

\* C4: when the timeout of a query fires the query is rejected with the
\* timeout error and no entry is left under its key; a query issued later
\* for the same key is registered under it again.
C4_TimeoutFreesKey ==
    [][/\ lastOp'.op = "timeout" =>
            LET q == lastOp'.q
            IN  /\ queries'[q].state = "timeout"
                /\ queries'[q].settled = 1
                /\ q \notin timers'
                /\ ~MapHas(responseHandlers', queries[q].messageId)
       /\ (lastOp'.op \in QueryOps /\ lastOp'.q # 0 /\ connected) =>
            LET q == lastOp'.q
                k == queries'[q].messageId
            IN  (\E p \in Issued : queries[p].messageId = k /\ queries[p].state = "timeout")
                => (MapHas(responseHandlers', k) /\ responseHandlers'[k] = q
                    /\ queries'[q].state = "pending" /\ q \in timers')]_vars

\* A query timed out, and a later query for the same key was resolved.
C4_Witness ==
    \E p, q \in Issued :
        /\ p < q
        /\ queries[p].messageId = queries[q].messageId
        /\ queries[p].state = "timeout"
        /\ queries[q].state = "resolved"
        /\ lastOp.op = "data"

\* C5: when the GET frame of a query is written to the transport, the
\* waiter of the query is in the pending map, and it is the query's own
\* waiter that the map holds when the call returns.
C5_RegisterThenSend ==
    (lastOp.op \in QueryOps /\ lastOp.q # 0) =>
        \A i \in 1..Len(lastOp.sent) :
            lastOp.sent[i].bytes[3] = GET =>
                LET k == queries[lastOp.q].messageId
                IN  /\ k \in lastOp.sent[i].waiters
                    /\ MapHas(responseHandlers, k)
                    /\ responseHandlers[k] = lastOp.q

C5_Witness ==
    /\ lastOp.op = "queryDimmer"
    /\ lastOp.q # 0
    /\ Len(lastOp.sent) = 1
    /\ lastOp.sent[1].bytes = <<2, 7, 6, 2, 2, 2, 10, 31>>

\* C6: resolve/reject is called at most once per query, a settled query
\* was settled in one of the three ways, and a settled query has neither
\* an armed timeout nor a waiter left.
C6_SingleResolution ==
    \A q \in Issued :
        /\ queries[q].settled <= 1
        /\ queries[q].state \in {"pending", "resolved", "timeout", "sendError"}
        /\ (queries[q].state = "pending") <=> (queries[q].settled = 0)
        /\ (queries[q].state # "pending") =>
               (q \notin timers /\ ~HasWaiter(responseHandlers, q))

C6_Witness ==
    /\ \E q \in Issued : queries[q].state = "resolved"
    /\ \E q \in Issued : queries[q].state = "timeout"
    /\ \E q \in Issued : queries[q].state = "sendError"

\* C7: under fairness of the timers every issued query is eventually
\* resolved or rejected.
C7_EventuallySettles ==
    \A q \in 1..MaxFairQueries :
        (Len(queries) >= q) ~> (Len(queries) >= q /\ queries[q].state # "pending")

\* A query whose waiter was replaced by a later query for the same key
\* (which was resolved) has been rejected by its own timeout.
C7_Witness ==
    \E p, q \in Issued :
        /\ p < q
        /\ queries[p].messageId = queries[q].messageId
        /\ queries[q].state = "resolved"
        /\ queries[p].state = "timeout"

-----------------------------------------------------------------------------
(* Vocabulary of the demultiplexer claims *)

\* The classification of a whole frame: its command byte and its bytes.
EventOf(frame) == [command |-> frame[3], message |-> frame]

FramesOf(pieces) == SelectSeq(pieces, LAMBDA p : p \in ValidFrames)

EventsOf(frames) == [i \in 1..Len(frames) |-> EventOf(frames[i])]

WholeDelivery == lastOp.op = "data" /\ lastOp.split = NoSplit

\* C8: when the bytes of one LOG or RESPONSE frame arrive as two
\* consecutive chunks, the two deliveries together classify the frame
\* exactly once.
C8_SplitDelivery ==
    (lastOp.op = "data" /\ lastOp.split # NoSplit) =>
        lastOp.split.events = <<EventOf(lastOp.split.frame)>>

\* C9: a delivery made of valid frames back to back classifies each frame
\* once, in the order of the frames, and raises no error.
C9_Concatenation ==
    (WholeDelivery /\ \A i \in 1..Len(lastOp.pieces) : lastOp.pieces[i] \in ValidFrames) =>
        /\ lastOp.thrown = NoError
        /\ lastOp.events = EventsOf(lastOp.pieces)

C9_Witness ==
    /\ WholeDelivery
    /\ lastOp.pieces = <<DemuxLog, DemuxResponse>>
    /\ Len(lastOp.events) = 2
    /\ lastOp.events[1].command = LOG
    /\ lastOp.events[2].command = RESPONSE
    /\ Len(lastOp.calls) = 1
    /\ \E q \in Issued : queries[q].state = "resolved"

\* Acknowledge bytes around at most one valid frame.
AckDelivery(pieces) ==
    /\ \A i \in 1..Len(pieces) : pieces[i] = <<ACK>> \/ pieces[i] \in ValidFrames
    /\ \E i \in 1..Len(pieces) : pieces[i] = <<ACK>>
    /\ Len(FramesOf(pieces)) <= 1

\* C10: a delivery of acknowledge bytes, alone or around one valid frame,
\* raises no error, classifies the frame once and nothing else, and leaves
\* the client as the frame alone would: the acknowledge bytes invoke no
\* subscriber and resolve no query.
C10_AcknowledgeTransparency ==
    [][(lastOp'.op = "data" /\ lastOp'.split = NoSplit /\ AckDelivery(lastOp'.pieces)) =>
        LET frames == FramesOf(lastOp'.pieces)
            alone == handleResponse(Client, Flatten(frames))
        IN  /\ lastOp'.thrown = NoError
            /\ lastOp'.events = EventsOf(frames)
            /\ lastOp'.calls = alone.calls
            /\ Len(lastOp'.calls) <= Len(frames)
            /\ queries' = alone.queries
            /\ responseHandlers' = alone.responseHandlers
            /\ timers' = alone.timers
            /\ frames = <<>> =>
                   (lastOp'.calls = <<>> /\ queries' = queries
                    /\ responseHandlers' = responseHandlers /\ timers' = timers)]_vars

C10_Witness ==
    /\ WholeDelivery
    /\ lastOp.pieces = << <<ACK>>, DemuxLog, <<ACK>> >>
    /\ Len(lastOp.events) = 1
    /\ Len(lastOp.calls) = 1

\* C11: in a delivery of complete frames of which one carries a command
\* that is none of LOG, RESPONSE, KEEP_ALIVE, the LOG, RESPONSE and
\* KEEP_ALIVE frames of the delivery, those after the offending frame
\* included, are all classified and dispatched.
C11_FramingErrorLocal ==
    (/\ WholeDelivery
     /\ \A i \in 1..Len(lastOp.pieces) : lastOp.pieces[i] \in ValidFrames \cup {UnknownFrame}
     /\ \E i \in 1..Len(lastOp.pieces) : lastOp.pieces[i] = UnknownFrame)
    => lastOp.events = EventsOf(FramesOf(lastOp.pieces))

-----------------------------------------------------------------------------
(* Vocabulary of the subscription claims *)

SubscribersOf(subs, functionType) ==
    IF MapHas(subs, functionType) THEN subs[functionType] ELSE <<>>

\* The frame that switches the logging of a function type on or off.
LogCommand(functionType, enabled) ==
    <<STX, 5, LOG, functionType, IF enabled THEN 255 ELSE 0,
      (STX + 5 + LOG + functionType + (IF enabled THEN 255 ELSE 0)) % 256>>

SentBytes(op) == [i \in 1..Len(op.sent) |-> op.sent[i].bytes]

Ready == connected /\ socket = "open"

C13_SubscriptionConsistency ==
    Ready =>
        \A t \in SubscribedTypes :
            LET subscribed == Len(SubscribersOf(subscribers, t)) > 0
            IN  /\ (t \in unitLogging) <=> subscribed
                /\ (MapHas(functionTypeLoggers, t) /\ functionTypeLoggers[t]) <=> subscribed

\* C14: the ready handler sends a LOG-enable for every function type
\* that has a subscriber when it runs.
C14_ReEnableOnReady ==
    [][lastOp'.op = "ready" =>
        \A t \in SubscribedTypes :
            Len(SubscribersOf(subscribers', t)) > 0
            => \E i \in 1..Len(lastOp'.sent) : lastOp'.sent[i].bytes = LogCommand(t, TRUE)]_vars

\* The StateChange a LOG frame carries on the wire:
\* STX LEN CMD centralUnit functionType numberMSB numberLSB error value CHK
WireChange(frame) ==
    [centralUnit |-> frame[4], functionType |-> frame[5],
     number |-> frame[6] * 256 + frame[7], value |-> frame[9]]

\* C15: a LOG frame invokes each callback subscribed to its function
\* type once, in subscription order, with the frame's central unit,
\* function type, number and raw value byte, invokes no other callback,
\* and leaves the client as it was.
C15_LogDispatch ==
    [][(lastOp'.op = "data" /\ lastOp'.data \in LogFrames) =>
        LET change == WireChange(lastOp'.data)
            callbacks == SubscribersOf(subscribers, change.functionType)
        IN  /\ lastOp'.calls = [i \in 1..Len(callbacks) |->
                                   [callback |-> callbacks[i], change |-> change]]
            /\ \A i, j \in 1..Len(callbacks) : i # j => callbacks[i] # callbacks[j]
            /\ lastOp'.thrown = NoError
            /\ UNCHANGED <<connected, socket, subscribers, functionTypeLoggers,
                           responseHandlers, timers, queries>>]_vars

\* A dimmer LOG frame reached both dimmer callbacks while a relay callback
\* was subscribed too.
C15_Witness ==
    /\ lastOp.op = "data"
    /\ lastOp.data = LogFrame(DIMMER, 2, 522, 40)
    /\ Len(lastOp.calls) = 2
    /\ lastOp.calls[1].change.value = 40
    /\ Len(SubscribersOf(subscribers, RELAY)) = 1

-----------------------------------------------------------------------------
(* Vocabulary of the public interface claims *)

SetOps == {"setRelay", "setDimmer"}

\* isConnected() is false, or disconnect() has dropped the socket.
NotConnected == ~connected \/ socket = "null"

LoggingRecorded(functionType) ==
    MapHas(functionTypeLoggers, functionType) /\ functionTypeLoggers[functionType]

\* C16: while the client is not connected, a set*, query* or subscribe
\* call hands nothing to the socket; the set* call and the subscribe that
\* has to enable logging fail, the query is rejected with the send error
\* and its timeout and waiter are removed; a keep-alive sent in such a
\* state fails and writes nothing.
C16_NotConnectedFailFast ==
    [][NotConnected =>
        /\ sendKeepAlive(Client).sent = <<>>
        /\ sendKeepAlive(Client).thrown = "NotConnected"
        /\ (lastOp'.op \in SetOps \cup QueryOps \cup {"subscribe"}) =>
               lastOp'.sent = <<>>
        /\ (lastOp'.op \in SetOps) => lastOp'.thrown # NoError
        /\ (lastOp'.op = "subscribe" /\ ~LoggingRecorded(lastOp'.data[1]))
               => lastOp'.thrown = "NotConnected"
        /\ (lastOp'.op \in QueryOps) =>
               LET q == lastOp'.q
               IN  IF q = 0 THEN lastOp'.thrown = "RangeError"
                   ELSE /\ queries'[q].state = "sendError"
                        /\ queries'[q].settled = 1
                        /\ q \notin timers'
                        /\ ~HasWaiter(responseHandlers', q)
                        /\ ~MapHas(responseHandlers', queries'[q].messageId)]_vars

\* A query issued after disconnect(), before the socket's 'close' event,
\* was rejected.
C16_Witness ==
    /\ connected
    /\ socket = "null"
    /\ lastOp.op = "queryRelay"
    /\ lastOp.q # 0
    /\ lastOp.sent = <<>>
    /\ queries[lastOp.q].state = "sendError"
    /\ lastOp.q \notin timers

\* C17: a set* or query* call whose central unit is outside [1,10],
\* whose item number is outside [0,0xFFFF] or whose dimmer level is
\* outside [0,100] fails and hands no frame to the transport.
C17_ValidationBeforeSend ==
    (lastOp.op \in SetOps \cup QueryOps) =>
        LET centralUnit == lastOp.data[1]
            number == lastOp.data[2]
            outside == \/ centralUnit < MinCentralUnit
                       \/ centralUnit > MaxCentralUnit
                       \/ number < 0
                       \/ number > MaxComponentNumber
                       \/ (lastOp.op = "setDimmer"
                           /\ (lastOp.data[3] < 0 \/ lastOp.data[3] > MaxDimmerLevel))
        IN  outside => (lastOp.sent = <<>> /\ lastOp.thrown # NoError)

-----------------------------------------------------------------------------
(* Vocabulary of the decode claims *)

\* The decoder of the frame's function type rejects the frame's payload:
\* fewer than six bytes, a relay state that is neither 0x00 nor 0xFF, a
\* dimmer level above 100.
DecoderRejects(frame) ==
    \/ Len(WirePayload(frame)) < 6
    \/ frame[5] = RELAY /\ frame[9] \notin {0, 255}
    \/ frame[5] = DIMMER /\ frame[9] > 100

BadResponseDelivered ==
    /\ lastOp'.op = "data"
    /\ lastOp'.data \in ResponseFrames \cup {ShortRelayResponse}
    /\ DecoderRejects(lastOp'.data)

\* C18: when a RESPONSE whose payload its decoder rejects carries the key
\* of an unsettled query, that query is rejected with the decode error
\* and its waiter is removed; the unsettled queries of other keys and the
\* subscriptions are left as they were.
C18_DecodeErrorSurfaces ==
    [][BadResponseDelivered =>
        LET k == WireKey(lastOp'.data)
        IN  /\ \A q \in Unsettled :
                   IF queries[q].messageId = k
                   THEN /\ QueryPromise(queries'[q]).state = "rejected"
                        /\ QueryPromise(queries'[q]).error
                               \in {"InsufficientData", "InvalidState", "InvalidLevel"}
                        /\ ~HasWaiter(responseHandlers', q)
                   ELSE queries'[q] = queries[q] /\ (q \in timers' <=> q \in timers)
            /\ subscribers' = subscribers
            /\ functionTypeLoggers' = functionTypeLoggers]_vars

-----------------------------------------------------------------------------
(* Vocabulary of the codec claims *)

RECURSIVE SumOf(_)
SumOf(bytes) ==
    IF Len(bytes) = 0 THEN 0
    ELSE IF Len(bytes) = 1 THEN bytes[1]
    ELSE LET half == Len(bytes) \div 2
         IN  SumOf(SubSeq(bytes, 1, half)) + SumOf(SubSeq(bytes, half + 1, Len(bytes)))

\* C19: for a command byte and a sequence of up to 250 parameter bytes,
\* buildCommand returns STX, the length byte 3 + number of parameters, the
\* command, the parameters and the checksum: length + 1 bytes in all,
\* the last one the sum of all bytes before it modulo 256.
C19_ChecksumRoundTrip ==
    lastOp.op = "buildCommand" =>
        LET frame == lastOp.data
            command == lastOp.q
            parameters == lastOp.pieces[1]
            length == 3 + Len(parameters)
        IN  /\ Len(parameters) <= MaxFrameParameters
            /\ Len(frame) = length + 1
            /\ frame[1] = 2
            /\ frame[2] = length
            /\ frame[3] = command
            /\ SubSeq(frame, 4, length) = parameters
            /\ frame[length + 1] = SumOf(SubSeq(frame, 1, length)) % 256
            /\ frame[length + 1] \in 0..255

\* A frame of the greatest length: 250 parameters of 0xFF, length byte
\* 253, checksum (2 + 253 + 7 + 250 * 255) mod 256.
C19_Witness ==
    /\ lastOp.op = "buildCommand"
    /\ lastOp.q = SET
    /\ Len(lastOp.data) = 254
    /\ lastOp.data[2] = 253
    /\ lastOp.data[253] = 255
    /\ lastOp.data[254] = 12

-----------------------------------------------------------------------------
(* Vocabulary of the option claims *)

\* C20: the timeout of a query that waits for its reply, or was rejected
\* by its timeout, was armed with the responseTimeout of the connection
\* options when the caller gave one, and with 4000 ms when the caller
\* gave none.
C20_ConfigurableTimeout ==
    \A q \in Issued :
        (q \in timers \/ queries[q].state = "timeout") =>
            queries[q].delay = IF responseTimeoutOption = Undefined
                               THEN 4000
                               ELSE responseTimeoutOption

-----------------------------------------------------------------------------
(* Vocabulary of the decoder claims *)

Decoded(op) == lastOp.op = op

\* C21: parseRelayResponse returns on = TRUE for the state byte 0xFF,
\* on = FALSE for 0x00, and fails for every other state byte.
C21_RelayDecode ==
    (Decoded("parseRelayResponse") /\ Len(lastOp.data) = 6) =>
        LET b == lastOp.data[6]
        IN  IF b = 255 THEN lastOp.result = [error |-> NoError, on |-> TRUE]
            ELSE IF b = 0 THEN lastOp.result = [error |-> NoError, on |-> FALSE]
            ELSE lastOp.thrown # NoError

C21_Witness ==
    /\ Decoded("parseRelayResponse")
    /\ lastOp.data = <<1, 1, 0, 5, 0, 254>>
    /\ lastOp.thrown = "InvalidState"

\* C22: parseDimmerResponse fails for a level byte above 100 and
\* otherwise returns that level and on = (level > 0); previousLevel is
\* part of the result exactly when the payload has a byte after the level
\* and that byte is at most 100, and then it is that byte.
C22_DimmerDecode ==
    (Decoded("parseDimmerResponse") /\ Len(lastOp.data) >= 6) =>
        LET l == lastOp.data[6]
            further == Len(lastOp.data) >= 7
        IN  IF l > 100 THEN lastOp.thrown # NoError
            ELSE /\ lastOp.thrown = NoError
                 /\ lastOp.result.level = l
                 /\ lastOp.result.on = (l > 0)
                 /\ ("previousLevel" \in DOMAIN lastOp.result)
                        <=> (further /\ lastOp.data[7] <= 100)
                 /\ ("previousLevel" \in DOMAIN lastOp.result)
                        => lastOp.result.previousLevel = lastOp.data[7]

\* A dimmer that is off, with a previous level at the limit.
C22_Witness ==
    /\ Decoded("parseDimmerResponse")
    /\ lastOp.data = <<2, 2, 2, 10, 0, 0, 100>>
    /\ lastOp.result = [error |-> NoError, on |-> FALSE, level |-> 0, previousLevel |-> 100]

\* The names of the protection states 0..4 (notDefined, onControlled,
\* onNotControlled, onOverruled, off) as the decoder spells them, and
\* the name of every other byte.
ProtectionName(protection) ==
    IF protection \in 0..4
    THEN <<"NOT_DEFINED", "ON_CONTROLLED", "ON_NOT_CONTROLLED", "ON_OVERRULED",
           "OFF">>[protection + 1]
    ELSE "unknown"

\* C23: for a complete motor payload with positions in range the decoder
\* used by queryMotor succeeds for every protection byte: bytes 0..4 give
\* the five named states, every other byte gives "unknown".
C23_MotorProtectionDecode ==
    (/\ Decoded("parseMotorResponse")
     /\ Len(lastOp.data) = 14
     /\ lastOp.data[9] <= 100
     /\ lastOp.data[10] <= 100)
    => /\ lastOp.thrown = NoError
       /\ lastOp.result.protection.state = ProtectionName(lastOp.data[8])

\* The number of bytes the decoder of a call reads from its payload.
LayoutLength(op, payload) ==
    IF op = "parseRelayResponse" THEN 6
    ELSE IF op = "parseDimmerResponse" THEN 6
    ELSE IF op = "parseMotorResponse" THEN 14
    ELSE IF op = "parseTemperatureSensor" THEN 2
    ELSE LET family == IF Len(payload) >= 2 THEN payload[2] ELSE 0
         IN  IF family = 1 THEN 2
             ELSE IF family = 2 THEN 1
             ELSE IF family = 3 THEN 2
             ELSE IF family = 4 THEN 16
             ELSE IF family = 5 THEN 20
             ELSE 2

DecoderOps == {"parseRelayResponse", "parseDimmerResponse", "parseMotorResponse",
               "parseSensorResponse"}

\* C24: a decoder called with a payload shorter than the layout it reads
\* fails.
C24_ShortPayloadRejected ==
    (lastOp.op \in DecoderOps /\ Len(lastOp.data) < LayoutLength(lastOp.op, lastOp.data))
        => lastOp.thrown # NoError

\* C25: parseTemperatureSensor fails for a raw value of 0x3F00 or more
\* and otherwise returns raw - 2730 tenths of a degree.
C25_TemperatureDecode ==
    Decoded("parseTemperatureSensor") =>
        LET r == lastOp.data[1] * 256 + lastOp.data[2]
        IN  IF r >= 16128 THEN lastOp.thrown # NoError
            ELSE lastOp.thrown = NoError /\ lastOp.result.temperature = r - 2730

\* Raw 2731 decodes to 0.1 degrees.
C25_Witness ==
    /\ Decoded("parseTemperatureSensor")
    /\ lastOp.data = <<10, 171>>
    /\ lastOp.thrown = NoError
    /\ lastOp.result.temperature = 1

\* The step starts a connect attempt of the reconnect closure.
ManagerAttempt == conn'.managerAttempts > conn.managerAttempts

\* The step reports 'Maximum number of reconnection attempts reached'.
LimitReported ==
    \E k \in DOMAIN lastOp'.notified : lastOp'.notified[k].event = "maximumAttemptsReached"

\* The step is a 'close' that wants a reconnect when every attempt is used.
CloseAtLimit ==
    /\ lastOp'.op = "socketClose"
    /\ conn'.autoReconnect
    /\ conn.reconnectAttempts = maxReconnectAttempts

\* C26: after a connection loss the connection starts at most
\* maxReconnectAttempts connect attempts without a successful connect in
\* between; reconnectAttempts never exceeds maxReconnectAttempts; and a
\* reconnect wanted at the limit is reported as an error and leaves no
\* reconnect timer scheduled.
C26_ReconnectLimit ==
    [][/\ conn'.reconnectAttempts <= maxReconnectAttempts
       /\ conn'.managerAttempts <= maxReconnectAttempts
       /\ LimitReported => ~conn'.reconnectTimer
       /\ CloseAtLimit => LimitReported]_vars

\* The step starts a connect attempt: socket.connect() on a new socket.
AttemptStarted == Len(conn'.sockets) > Len(conn.sockets)

\* C30: once disconnect() has been called, also from inside a handler of a
\* failing reconnect attempt, no reconnect timer is left scheduled and no
\* connect attempt is started until the application calls connect() again.
C30_DisconnectFinal ==
    [][/\ conn'.disconnected => ~conn'.reconnectTimer
       /\ conn.disconnected /\ AttemptStarted => lastOp'.op = "connect"]_vars

\* The step delivers the RESPONSE of an unsettled query whose key is not
\* key, or fires the timeout of a query whose key is not key.
OtherQuerySettles(key) ==
    \/ /\ ResponseDelivered
       /\ WireKey(lastOp'.data) # key
       /\ \E a \in Unsettled : queries[a].messageId = WireKey(lastOp'.data)
    \/ /\ lastOp'.op = "timeout"
       /\ queries[lastOp'.q].messageId # key

C28_TruncatedTrailingFrame ==
    [][lastOp'.op = "truncated" =>
        LET before == handleResponse(Client, Flatten(lastOp'.pieces))
        IN  /\ lastOp'.events = before.events
            /\ lastOp'.calls = before.calls
            /\ lastOp'.thrown = before.thrown
            /\ queries' = before.queries
            /\ responseHandlers' = before.responseHandlers
            /\ timers' = before.timers
            /\ (\A i \in 1..Len(lastOp'.pieces) : lastOp'.pieces[i] \in ValidFrames) =>
                   /\ lastOp'.thrown = NoError
                   /\ lastOp'.events = EventsOf(lastOp'.pieces)]_vars

\* A LOG frame and the RESPONSE of the pending query were dispatched, and
\* the delivery ended with a start marker and a length byte.
C28_Witness ==
    /\ lastOp.op = "truncated"
    /\ lastOp.pieces = <<DemuxLog, DemuxResponse>>
    /\ lastOp.data = DemuxLog \o DemuxResponse \o SubSeq(DemuxLog, 1, 2)
    /\ Len(lastOp.events) = 2
    /\ Len(lastOp.calls) = 1
    /\ lastOp.thrown = NoError
    /\ \E q \in Issued : queries[q].state = "resolved"

\* Bytes that are no start marker and no acknowledge, around valid frames.
StrayDelivery(pieces) ==
    /\ \A i \in 1..Len(pieces) : pieces[i] = <<85>> \/ pieces[i] \in ValidFrames
    /\ \E i \in 1..Len(pieces) : pieces[i] = <<85>>

\* C29: a delivery of unrecognised bytes and valid frames raises no error
\* and classifies each frame once, in order, and nothing else; it leaves
\* the client as the frames alone would.
C29_DefensiveResync ==
    [][(lastOp'.op = "data" /\ lastOp'.split = NoSplit /\ StrayDelivery(lastOp'.pieces)) =>
        LET frames == FramesOf(lastOp'.pieces)
            alone == handleResponse(Client, Flatten(frames))
        IN  /\ lastOp'.thrown = NoError
            /\ lastOp'.events = EventsOf(frames)
            /\ lastOp'.calls = alone.calls
            /\ queries' = alone.queries
            /\ responseHandlers' = alone.responseHandlers
            /\ timers' = alone.timers]_vars

\* Two unrecognised bytes, then the RESPONSE of the pending query.
C29_Witness ==
    /\ WholeDelivery
    /\ lastOp.pieces = << <<85>>, <<85>>, DemuxResponse >>
    /\ Len(lastOp.events) = 1
    /\ lastOp.events[1].command = RESPONSE
    /\ lastOp.thrown = NoError
    /\ \E q \in Issued : queries[q].state = "resolved"

\* C31: the reconnect closure starts a connect attempt only while the
\* connection is not established, and when a socket connects no reconnect
\* timer is left scheduled.
C31_NoReconnectWhileConnected ==
    [][/\ lastOp'.op = "reconnect" => ~connected
       /\ lastOp'.op = "socketConnect" => ~conn'.reconnectTimer]_vars

\* The socket the connection holds is connected.
CurrentSocketConnected ==
    conn.current # 0 /\ conn.sockets[conn.current].status = "connected"

\* The step is the 'close' or the 'error' event of a socket that connect()
\* has replaced by another one, and no handler calls disconnect() in it.
StaleSocketEvent ==
    /\ lastOp'.op \in {"socketClose", "socketError"}
    /\ conn.current # 0
    /\ lastOp'.q # conn.current
    /\ conn'.disconnected = conn.disconnected

\* C32: an event of a replaced socket leaves connected, the keep-alive
\* timer and the reconnect timer and counter as they are, and connected is
\* true exactly when the socket the connection holds is connected.
C32_StaleSocketEvents ==
    [][/\ StaleSocketEvent =>
            /\ connected' = connected
            /\ conn'.keepAliveTimer = conn.keepAliveTimer
            /\ conn'.reconnectTimer = conn.reconnectTimer
            /\ conn'.reconnectAttempts = conn.reconnectAttempts
       /\ connected' <=> CurrentSocketConnected']_vars

\* The step calls the onReconnecting handlers.
ReconnectingNotified ==
    {k \in DOMAIN lastOp'.notified : lastOp'.notified[k].event = "onReconnecting"}

\* C33: an announced reconnect attempt is made: a scheduled reconnect timer
\* stays scheduled, without a further onReconnecting, until it fires or
\* disconnect() is called; onReconnecting is called once per scheduling
\* with the next number; reconnectAttempts changes only with that call,
\* and a successful connect resets it to 0.
C33_OneNotificationPerAttempt ==
    [][/\ (conn.reconnectTimer /\ lastOp'.op # "reconnect" /\ conn'.autoReconnect) =>
            (conn'.reconnectTimer /\ ReconnectingNotified = {})
       /\ \A k \in ReconnectingNotified :
            /\ Cardinality(ReconnectingNotified) = 1
            /\ lastOp'.notified[k].arg = conn.reconnectAttempts + 1
            /\ conn'.reconnectAttempts = conn.reconnectAttempts + 1
       /\ conn'.reconnectAttempts # conn.reconnectAttempts =>
            (ReconnectingNotified # {} \/ lastOp'.op = "socketConnect")
       /\ lastOp'.op = "socketConnect" => conn'.reconnectAttempts = 0]_vars

\* The step is the cleanup of query lastOp'.q: its timeout fired, or its
\* send failed.
QueryCleanup ==
    \/ lastOp'.op = "timeout"
    \/ /\ lastOp'.op \in QueryOps
       /\ lastOp'.q # 0
       /\ queries'[lastOp'.q].state = "sendError"

\* C34: the cleanup of a query after its timeout or its failed send removes
\* no other query's entry from the pending map: every other query that held
\* an entry still holds it.
C34_CleanupOwnWaiter ==
    [][QueryCleanup =>
        \A p \in Unsettled \ {lastOp'.q} :
            HasWaiter(responseHandlers, p) => HasWaiter(responseHandlers', p)]_vars

\* C35: every entry of the pending map is the entry of an unsettled query
\* with that key, so the map is empty once every issued query is settled.
C35_NoLeakedWaiters ==
    /\ \A m \in DOMAIN responseHandlers :
           /\ responseHandlers[m] \in Unsettled
           /\ queries[responseHandlers[m]].messageId = m
    /\ Unsettled = {} => DOMAIN responseHandlers = {}

\* Three queries, two of them for one key, were settled in the three ways
\* and the map is empty.
C35_Witness ==
    /\ Len(queries) = 3
    /\ Unsettled = {}
    /\ DOMAIN responseHandlers = {}
    /\ queries[1].messageId = queries[2].messageId
    /\ {queries[q].state : q \in Issued} = {"resolved", "timeout", "sendError"}

\* A frame that no one waits for: a KEEP_ALIVE frame, or a RESPONSE frame
\* whose key has no entry in the pending map.
Unawaited(frame) ==
    \/ frame = KeepAliveFrame
    \/ frame \in ResponseFrames /\ ~MapHas(responseHandlers, WireKey(frame))

\* C36: a delivery of KEEP_ALIVE frames and of RESPONSE frames without a
\* waiter is classified and changes nothing: no query is settled, no
\* subscriber is called, nothing is sent, no error is raised, and the
\* pending map, the timers and the subscriber registry stay as they are.
C36_UnmatchedResponseIgnored ==
    [][(/\ lastOp'.op = "data"
        /\ lastOp'.split = NoSplit
        /\ lastOp'.pieces # <<>>
        /\ \A i \in 1..Len(lastOp'.pieces) : Unawaited(lastOp'.pieces[i])) =>
        /\ lastOp'.events = EventsOf(lastOp'.pieces)
        /\ lastOp'.calls = <<>>
        /\ lastOp'.sent = <<>>
        /\ lastOp'.thrown = NoError
        /\ UNCHANGED <<queries, responseHandlers, timers, subscribers,
                       functionTypeLoggers>>]_vars

\* The RESPONSE of a query that has timed out arrives, with a KEEP_ALIVE
\* frame, while a subscriber is registered.
C36_Witness ==
    /\ WholeDelivery
    /\ lastOp.pieces = <<DemuxResponse, KeepAliveFrame>>
    /\ Len(lastOp.events) = 2
    /\ lastOp.calls = <<>>
    /\ Len(queries) = 1
    /\ queries[1].state = "timeout"
    /\ queries[1].messageId = WireKey(DemuxResponse)
    /\ SubscribersOf(subscribers, RELAY) # <<>>

\* C37: a subscribe or unsubscribe call that throws leaves the subscriber
\* registry and the functionTypeLoggers map as they were.
C37_FailedSubscribeChangesNothing ==
    [][(lastOp'.op \in {"subscribe", "unsubscribe"} /\ lastOp'.thrown # NoError) =>
        UNCHANGED <<subscribers, functionTypeLoggers>>]_vars

\* The function types whose LOG-disable command the step writes.
DisableSent ==
    {t \in FunctionType :
        \E i \in 1..Len(lastOp'.sent) : lastOp'.sent[i].bytes = LogCommand(t, FALSE)}

\* C38: a LOG-disable command for a function type is written only by an
\* unsubscribe call for that type that takes its subscriber set from
\* non-empty to empty.
C38_DisableOnLastRemoval ==
    [][\A t \in DisableSent :
        /\ lastOp'.op = "unsubscribe"
        /\ lastOp'.data = <<t>>
        /\ SubscribersOf(subscribers, t) # <<>>
        /\ SubscribersOf(subscribers', t) = <<>>]_vars

\* The step writes the keep-alive frame.
KeepAliveSent ==
    {i \in 1..Len(lastOp'.sent) : lastOp'.sent[i].bytes = <<STX, 3, KEEP_ALIVE, 16>>}

\* C39: at most one keep-alive interval is live and it is the one the
\* connection holds; it is set only by the 'connect' event of a socket and
\* is cleared by every 'close' event and by disconnect(); the keep-alive
\* frame is written once on every ready event and on every tick while
\* connected, and only then, always with connected true.
C39_KeepAliveDiscipline ==
    [][/\ conn'.intervals <= 1
       /\ conn'.keepAliveTimer <=> conn'.intervals = 1
       /\ (conn'.keepAliveTimer /\ ~conn.keepAliveTimer) => lastOp'.op = "socketConnect"
       /\ lastOp'.op = "socketConnect" => conn'.keepAliveTimer
       /\ lastOp'.op \in {"socketClose", "disconnect"} => ~conn'.keepAliveTimer
       /\ lastOp'.op = "socketConnect" => Cardinality(KeepAliveSent) = 1
       /\ (lastOp'.op = "keepAlive" /\ connected) => Cardinality(KeepAliveSent) = 1
       /\ KeepAliveSent # {} =>
            /\ lastOp'.op \in {"socketConnect", "keepAlive"}
            /\ connected'
            /\ lastOp'.thrown = NoError]_vars

\* A keep-alive tick on an established connection wrote the frame.
C39_Witness ==
    /\ lastOp.op = "keepAlive"
    /\ connected
    /\ conn.keepAliveTimer
    /\ conn.intervals = 1
    /\ CurrentSocketConnected
    /\ Len(lastOp.sent) = 1
    /\ lastOp.sent[1].bytes = <<2, 3, 11, 16>>

\* C40: the scan of a delivered buffer evaluates its loop condition with
\* strictly increasing indices that start at 0 and never exceed the length
\* of the buffer; it ends when the index reaches the length, at a truncated
\* frame, or with an error.
C40_DemuxTermination ==
    lastOp.op = "data" =>
        /\ lastOp.scan # <<>>
        /\ lastOp.scan[1] = 0
        /\ \A i \in 1..Len(lastOp.scan) :
               /\ lastOp.scan[i] <= Len(lastOp.data)
               /\ i > 1 => lastOp.scan[i] > lastOp.scan[i - 1]
        /\ LET last == lastOp.scan[Len(lastOp.scan)]
           IN  \/ last = Len(lastOp.data)
               \/ lastOp.thrown # NoError
               \/ /\ At(lastOp.data, last) = STX
                  /\ \/ last + 1 >= Len(lastOp.data)
                     \/ last + At(lastOp.data, last + 1) + 1 > Len(lastOp.data)

\* A frame with length byte 2 and the KEEP_ALIVE command, then a bare
\* start marker: the scan stepped over the frame and stopped at the marker.
C40_Witness ==
    /\ lastOp.op = "data"
    /\ lastOp.data = <<STX, 2, KEEP_ALIVE, STX>>
    /\ lastOp.scan = <<0, 3>>
    /\ lastOp.thrown = NoError

====
